---- MODULE Spec2Model ----
(***************************************************************************)
(* Ant trail-following simulation (src/src/model.py): the lattice and its  *)
(* pheromone field, the per-ant decision algorithm (fidelity check, lost   *)
(* algorithm, fork algorithm 1) and the world's step protocol.             *)
(*                                                                         *)
(* Numbers.  Pheromone levels are integers, as in the source.              *)
(* Probabilities (phi_low, delta_phi, the kernel B) are rationals: a       *)
(* WorldParams value carries their numerators over prob_den (phi_low,      *)
(* delta_phi) and over the kernel's total (B).  The random source is       *)
(* explicit: every draw is an input of the operator that consumes it.      *)
(*   random.random()   u / UDen(p)  with u in 0 .. UDen(p)-1               *)
(*   random.choices()  r in 0 .. total-1, resolved by cumulative weights   *)
(*   random.choice()   any of the 8 directions                             *)
(***************************************************************************)
EXTENDS Integers, Sequences, FiniteSets, TLC

(***************************************************************************)
(* Bounds of the model.                                                    *)
(***************************************************************************)
MaxSteps == 2
MaxLevel == 3
MaxTrails == 3
MaxWorldSize == 4

(***************************************************************************)
(* LatticeDir: the 8 directions, valued by their angle (0 is North,        *)
(* clockwise).  LatticeDir is the enumeration order of the enum, which is  *)
(* also the key order of every node's neighbors dict.                      *)
(***************************************************************************)
NORTH == 0
NORTHEAST == 45
EAST == 90
SOUTHEAST == 135
SOUTH == 180
SOUTHWEST == 225
WEST == 270
NORTHWEST == 315

LatticeDir == <<NORTH, NORTHEAST, EAST, SOUTHEAST, SOUTH, SOUTHWEST, WEST, NORTHWEST>>

Dirs == {LatticeDir[i] : i \in 1..Len(LatticeDir)}

\* opposite with a quarter turn in place of the half turn
opposite_Quarter(direction) ==
    LET opposite_angle == (direction + 90) % 360
        hits == {i \in 1..Len(LatticeDir) : LatticeDir[i] = opposite_angle}
    IN  IF hits = {} THEN "ValueError"
        ELSE LatticeDir[CHOOSE i \in hits : \A j \in hits : i <= j]

\* LatticeDir.opposite: the first member whose value is (d + 180) % 360;
\* "ValueError" when the loop finds none.
opposite(direction) ==
    LET opposite_angle == (direction + 180) % 360
        hits == {i \in 1..Len(LatticeDir) : LatticeDir[i] = opposite_angle}
    IN  IF hits = {} THEN "ValueError"
        ELSE LatticeDir[CHOOSE i \in hits : \A j \in hits : i <= j]

\* relative with >= 180 in place of > 180
relative_Half(self, other) ==
    LET relative_angle == (other - self) % 360
    IN  IF relative_angle >= 180 THEN relative_angle - 360 ELSE relative_angle

\* LatticeDir.relative: self.relative(other)
relative(self, other) ==
    LET relative_angle == (other - self) % 360
    IN  IF relative_angle > 180 THEN relative_angle - 360 ELSE relative_angle

Abs(x) == IF x < 0 THEN 0 - x ELSE x

(***************************************************************************)
(* The square lattice.  A node is identified by its position; None is the  *)
(* absent neighbour / absent node.                                         *)
(***************************************************************************)
None == <<>>

\* nodes at the positions 1 .. n in place of 0 .. n-1
Nodes_OneBased(world_size) == (1..world_size) \X (1..world_size)

\* nodes = {(x, y): LatticeNode((x, y)) for x in range(n) for y in range(n)}
Nodes(world_size) == (0..(world_size - 1)) \X (0..(world_size - 1))

\* Target with the SOUTHWEST offset mistyped as (-1, -1)
Target_Southwest(pos, d) ==
    CASE d = NORTH     -> <<pos[1],     pos[2] - 1>>
      [] d = NORTHEAST -> <<pos[1] + 1, pos[2] - 1>>
      [] d = EAST      -> <<pos[1] + 1, pos[2]>>
      [] d = SOUTHEAST -> <<pos[1] + 1, pos[2] + 1>>
      [] d = SOUTH     -> <<pos[1],     pos[2] + 1>>
      [] d = SOUTHWEST -> <<pos[1] - 1, pos[2] - 1>>
      [] d = WEST      -> <<pos[1] - 1, pos[2]>>
      [] d = NORTHWEST -> <<pos[1] - 1, pos[2] - 1>>

\* the `directions` dict of square_lattice: the geometric target of a direction
Target(pos, d) ==
    CASE d = NORTH     -> <<pos[1],     pos[2] - 1>>
      [] d = NORTHEAST -> <<pos[1] + 1, pos[2] - 1>>
      [] d = EAST      -> <<pos[1] + 1, pos[2]>>
      [] d = SOUTHEAST -> <<pos[1] + 1, pos[2] + 1>>
      [] d = SOUTH     -> <<pos[1],     pos[2] + 1>>
      [] d = SOUTHWEST -> <<pos[1] - 1, pos[2] + 1>>
      [] d = WEST      -> <<pos[1] - 1, pos[2]>>
      [] d = NORTHWEST -> <<pos[1] - 1, pos[2] - 1>>

\* the bounds test with <= on the upper side
InBounds_Inclusive(world_size, pos) ==
    /\ 0 <= pos[1] /\ pos[1] <= world_size
    /\ 0 <= pos[2] /\ pos[2] <= world_size

\* if 0 <= nx < n and 0 <= ny < n
InBounds(world_size, pos) ==
    /\ 0 <= pos[1] /\ pos[1] < world_size
    /\ 0 <= pos[2] /\ pos[2] < world_size

\* node.neighbors with a target outside the lattice pulled back onto the
\* border (a reflecting edge)
neighbors_Clamped(world_size, pos) ==
    [d \in Dirs |->
        LET t == Target(pos, d)
            x == IF t[1] < 0 THEN 0 ELSE IF t[1] >= world_size THEN world_size - 1 ELSE t[1]
            y == IF t[2] < 0 THEN 0 ELSE IF t[2] >= world_size THEN world_size - 1 ELSE t[2]
        IN  <<x, y>>]

\* node.neighbors with a key only for the neighbours that exist
neighbors_PresentOnly(world_size, pos) ==
    [d \in {e \in Dirs : InBounds(world_size, Target(pos, e))} |-> Target(pos, d)]

\* node.neighbors after square_lattice: all 8 keys, None unless the target
\* is in bounds
neighbors(world_size, pos) ==
    [d \in Dirs |-> IF InBounds(world_size, Target(pos, d)) THEN Target(pos, d) ELSE None]

\* Lattice.get_node_at
get_node_at(world_size, position) ==
    IF position \in Nodes(world_size) THEN position ELSE None

\* add_pheromone that adds the amount twice
add_pheromone_Twice(level, amount) == level + 2 * amount

\* LatticeNode.add_pheromone
add_pheromone(level, amount) == level + amount

Max(a, b) == IF a >= b THEN a ELSE b

\* remove_pheromone that removes nothing
remove_pheromone_Keep(level, amount) == level

\* remove_pheromone without the floor at zero
remove_pheromone_NoFloor(level, amount) == level - amount

\* LatticeNode.remove_pheromone
remove_pheromone(level, amount) == Max(0, level - amount)

\* evaporation by the deposition rate tau in place of evaporation_rate
evaporate_all_pheromones_Tau(ph, p) ==
    [n \in DOMAIN ph |-> remove_pheromone(ph[n], p.tau)]

\* Lattice.evaporate_all_pheromones
evaporate_all_pheromones(ph, p) ==
    [n \in DOMAIN ph |-> remove_pheromone(ph[n], p.evaporation_rate)]

(***************************************************************************)
(* WorldParams.  Offsets are the keys of B.                                *)
(***************************************************************************)
Offsets == {0, 45, -45, 90, -90, 135, -135, 180}

\* a kernel with every weight positive (the shape of default_small), in tenths
KernelFull ==
    [k \in Offsets |-> IF k = 0 THEN 3 ELSE 1]

\* a lopsided kernel with zero weights (never -90 or +-135), in sevenths
KernelSkew ==
    [k \in Offsets |-> CASE k = 0 -> 2
                         [] k = 45 -> 2
                         [] k = -45 -> 1
                         [] k = 90 -> 1
                         [] k = 180 -> 1
                         [] OTHER -> 0]

\* WorldParams.__init__: the fields of a WorldParams value.  phi_low and
\* delta_phi are numerators over prob_den, B's weights over their total.
WorldParams(tau, B, phi_low, C_s, delta_phi, prob_den, evaporation_rate, world_size) ==
    [tau |-> tau, B |-> B, phi_low |-> phi_low, C_s |-> C_s, delta_phi |-> delta_phi,
     prob_den |-> prob_den, evaporation_rate |-> evaporation_rate,
     world_size |-> world_size]

\* the parameter sets a world is run with: phi_low = 1/4, delta_phi = 2/4,
\* on a 3 x 3 lattice (nest in the middle) and a 2 x 2 one (nest in a corner)
\* with tau = 2, on a 3 x 3 lattice with tau = evaporation_rate = 1, and on
\* a 5 x 5 lattice, whose border is two moves from the nest
WorldParamChoices ==
    {WorldParams(2, KernelFull, 1, 2, 2, 4, 1, 3),
     WorldParams(2, KernelFull, 1, 2, 2, 4, 1, 2),
     WorldParams(1, KernelFull, 1, 2, 2, 4, 1, 3),
     WorldParams(2, KernelFull, 1, 2, 2, 4, 1, 5)}

\* the parameter sets single calls are made with
CallParamChoices == {WorldParams(2, KernelSkew, 1, 2, 2, 4, 1, 2)}

(***************************************************************************)
(* Ant.                                                                    *)
(***************************************************************************)
NoError == "none"
LOST == "LOST"
FOLLOWING == "FOLLOWING"
SUCCESS == "SUCCESS"
OFF_GRID == "OFF_GRID"

\* Ant.__init__ with the heading random.choice drew
Ant(id, start_node, heading) ==
    [id |-> id, current_node |-> start_node, status |-> LOST, velocity |-> heading]

\* get_fidelity_probability with the integer division current_pheromone // C_s
get_fidelity_probability_FloorDiv(current_pheromone, p) ==
    IF current_pheromone >= p.C_s
    THEN [num |-> p.phi_low + p.delta_phi, den |-> p.prob_den]
    ELSE [num |-> p.phi_low + p.delta_phi * (current_pheromone \div p.C_s),
          den |-> p.prob_den]

\* Ant.get_fidelity_probability, as the rational num/den
get_fidelity_probability(current_pheromone, p) ==
    IF current_pheromone >= p.C_s
    THEN [num |-> p.phi_low + p.delta_phi, den |-> p.prob_den]
    ELSE [num |-> p.phi_low * p.C_s + p.delta_phi * current_pheromone,
          den |-> p.prob_den * p.C_s]

\* get_fidelity_probability with the quotient computed before the comparison
get_fidelity_probability_raises_Eager(current_pheromone, p) ==
    IF p.C_s = 0 THEN "ZeroDivisionError" ELSE NoError

\* the exception get_fidelity_probability raises, NoError when it returns:
\* current_pheromone / params.C_s is evaluated in the else branch only
get_fidelity_probability_raises(current_pheromone, p) ==
    IF current_pheromone >= p.C_s
    THEN NoError
    ELSE IF p.C_s = 0 THEN "ZeroDivisionError" ELSE NoError

\* the grid of values random.random() is drawn from: u / UDen(p)
UDen(p) == p.prob_den
UDraws(p) == 0..(UDen(p) - 1)

\* random.random() < fidelity_prob
DrawBelow(u, p, prob) == u * prob.den < prob.num * UDen(p)

RECURSIVE SumTo(_, _)
\* itertools.accumulate(weights): the cumulative weight of the first i entries
SumTo(weights, i) == IF i = 0 THEN 0 ELSE SumTo(weights, i - 1) + weights[i]

RDraws(p) == 0..(SumTo([i \in 1..Len(LatticeDir) |-> p.B[relative(NORTH, LatticeDir[i])]], Len(LatticeDir)) - 1)

RECURSIVE Bisect(_, _, _, _)
\* bisect(cum_weights, x, 0, n - 1) for x in [r, r+1): the first index whose
\* cumulative weight (acc + weights[i]) exceeds the draw, the last index if
\* none does
Bisect(weights, r, i, acc) ==
    IF i = Len(weights) \/ acc + weights[i] > r
    THEN i
    ELSE Bisect(weights, r, i + 1, acc + weights[i])

\* random.choices(population, weights)[0] with random() * total in [r, r+1)
choices(population, weights, r) == population[Bisect(weights, r, 1, 0)]

\* pick_lost with the kernel looked up at dir.relative(self.velocity)
pick_lost_Swapped(velocity, p, r) ==
    LET weights == [i \in 1..Len(LatticeDir) |-> p.B[relative(LatticeDir[i], velocity)]]
    IN  choices(LatticeDir, weights, r)

\* Ant.pick_lost
pick_lost(velocity, p, r) ==
    LET weights == [i \in 1..Len(LatticeDir) |-> p.B[relative(velocity, LatticeDir[i])]]
    IN  choices(LatticeDir, weights, r)

\* nearby_trails that only leaves out the direction right behind the ant
nearby_trails_NoBack(velocity, nbrs, ph) ==
    SelectSeq(LatticeDir, LAMBDA dir :
        /\ dir \in DOMAIN nbrs
        /\ nbrs[dir] # None
        /\ ph[nbrs[dir]] > 0
        /\ Abs(relative(dir, velocity)) < 180)

\* nearby_trails with the forward arc opened to 90 degrees either way
nearby_trails_Wide(velocity, nbrs, ph) ==
    SelectSeq(LatticeDir, LAMBDA dir :
        /\ dir \in DOMAIN nbrs
        /\ nbrs[dir] # None
        /\ ph[nbrs[dir]] > 0
        /\ Abs(relative(dir, velocity)) <= 90)

\* the keys of nearby_trails, in the key order of neighbors
nearby_trails(velocity, nbrs, ph) ==
    SelectSeq(LatticeDir, LAMBDA dir :
        /\ dir \in DOMAIN nbrs
        /\ nbrs[dir] # None
        /\ ph[nbrs[dir]] > 0
        /\ Abs(relative(dir, velocity)) <= 45)

\* `self.velocity in nearby_trails.values()`: a direction is never a node
InSeq_Never(x, s) == FALSE

\* `self.velocity in nearby_trails`
InSeq(x, s) == \E i \in 1..Len(s) : s[i] = x

\* the first entry of nearby_trails in place of the maximal one
MaxDir_First(trails, nbrs, ph) == trails[1]

\* max(nearby_trails.items(), key=level)[0]: the first maximal entry
MaxDir(trails, nbrs, ph) ==
    LET best == CHOOSE i \in 1..Len(trails) :
                    /\ \A j \in 1..Len(trails) : ph[nbrs[trails[j]]] <= ph[nbrs[trails[i]]]
                    /\ \A j \in 1..(i - 1) : ph[nbrs[trails[j]]] < ph[nbrs[trails[i]]]
    IN  trails[best]

\* all_same that compares no levels
AllSame_Never(trails, nbrs, ph) == FALSE

\* all_same of pick_following
AllSame(trails, nbrs, ph) ==
    LET first_val == ph[nbrs[trails[1]]]
    IN  \A i \in 1..Len(trails) : ph[nbrs[trails[i]]] = first_val

\* all_saturated with > in place of >=
AllSaturated_Strict(trails, nbrs, ph, p) ==
    \A i \in 1..Len(trails) : ph[nbrs[trails[i]]] > p.C_s

\* all_saturated of pick_following
AllSaturated(trails, nbrs, ph, p) ==
    \A i \in 1..Len(trails) : ph[nbrs[trails[i]]] >= p.C_s

\* pick_following that keeps its heading when the trail ends
pick_following_EndedAhead(velocity, nbrs, ph, p, r) ==
    LET trails == nearby_trails(velocity, nbrs, ph)
        all_same == AllSame(trails, nbrs, ph)
        all_saturated == AllSaturated(trails, nbrs, ph, p)
    IN  IF Len(trails) = 0
        THEN [dir |-> velocity, branch |-> "ended"]
        ELSE IF Len(trails) = 1
        THEN [dir |-> trails[1], branch |-> "single"]
        ELSE IF InSeq(velocity, trails)
        THEN [dir |-> velocity, branch |-> "forward"]
        ELSE IF all_same \/ all_saturated
        THEN [dir |-> pick_lost(velocity, p, r), branch |-> "indistinct"]
        ELSE [dir |-> MaxDir(trails, nbrs, ph), branch |-> "max"]

\* Ant.pick_following; branch names the return statement taken
pick_following(velocity, nbrs, ph, p, r) ==
    LET trails == nearby_trails(velocity, nbrs, ph)
        all_same == AllSame(trails, nbrs, ph)
        all_saturated == AllSaturated(trails, nbrs, ph, p)
    IN  IF Len(trails) = 0
        THEN [dir |-> pick_lost(velocity, p, r), branch |-> "ended"]
        ELSE IF Len(trails) = 1
        THEN [dir |-> trails[1], branch |-> "single"]
        ELSE IF InSeq(velocity, trails)
        THEN [dir |-> velocity, branch |-> "forward"]
        ELSE IF all_same \/ all_saturated
        THEN [dir |-> pick_lost(velocity, p, r), branch |-> "indistinct"]
        ELSE [dir |-> MaxDir(trails, nbrs, ph), branch |-> "max"]

\* the exception pick_lost raises on these neighbours and parameters, NoError
\* when it returns: the assert on len(neighbors), then the lookups
\* params.B[self.velocity.relative(dir)]
pick_lost_raises(velocity, nbrs, p) ==
    IF Cardinality(DOMAIN nbrs) # 8
    THEN "AssertionError"
    ELSE IF \E dir \in DOMAIN nbrs : relative(velocity, dir) \notin DOMAIN p.B
    THEN "KeyError"
    ELSE NoError

\* a fidelity check that leaves self.status alone off the trail
FidelityCheck_Sticky(ant, ph, p, u) ==
    IF ph[ant.current_node] > 0
    THEN IF DrawBelow(u, p, get_fidelity_probability(ph[ant.current_node], p))
         THEN FOLLOWING
         ELSE LOST
    ELSE ant.status

\* the fidelity check at the head of Ant.move: the status it assigns to
\* self.status
FidelityCheck(ant, ph, p, u) ==
    IF ph[ant.current_node] > 0
    THEN IF DrawBelow(u, p, get_fidelity_probability(ph[ant.current_node], p))
         THEN FOLLOWING
         ELSE LOST
    ELSE LOST

\* move with the deposit made on the node the ant leaves
move_DepositBehind(ant, ph, p, u, r) ==
    LET level == ph[ant.current_node]
        status == FidelityCheck(ant, ph, p, u)
        nbrs == neighbors(p.world_size, ant.current_node)
        pick == IF status = LOST
                THEN [dir |-> pick_lost(ant.velocity, p, r), branch |-> "lost"]
                ELSE pick_following(ant.velocity, nbrs, ph, p, r)
        raised == IF pick.branch \in {"lost", "ended", "indistinct"}
                  THEN pick_lost_raises(ant.velocity, nbrs, p)
                  ELSE NoError
        target_node == nbrs[pick.dir]
        seen == [id |-> ant.id, from |-> ant.current_node, level |-> level,
                 status_before |-> ant.status, status |-> status,
                 velocity_before |-> ant.velocity,
                 branch |-> pick.branch, dir |-> pick.dir]
    IN  IF raised # NoError
        THEN [result |-> None, raised |-> raised,
              ant |-> [ant EXCEPT !.status = status],
              pheromone |-> ph,
              seen |-> seen]
        ELSE IF target_node = None
        THEN [result |-> OFF_GRID, raised |-> NoError,
              ant |-> [ant EXCEPT !.status = status],
              pheromone |-> ph,
              seen |-> seen]
        ELSE [result |-> SUCCESS, raised |-> NoError,
              ant |-> [ant EXCEPT !.status = status,
                                  !.current_node = target_node,
                                  !.velocity = pick.dir],
              pheromone |-> [ph EXCEPT ![ant.current_node] = add_pheromone(@, p.tau)],
              seen |-> seen]

\* move with the velocity assigned before the test for a missing neighbour
move_TurnBeforeCheck(ant, ph, p, u, r) ==
    LET level == ph[ant.current_node]
        status == FidelityCheck(ant, ph, p, u)
        nbrs == neighbors(p.world_size, ant.current_node)
        pick == IF status = LOST
                THEN [dir |-> pick_lost(ant.velocity, p, r), branch |-> "lost"]
                ELSE pick_following(ant.velocity, nbrs, ph, p, r)
        raised == IF pick.branch \in {"lost", "ended", "indistinct"}
                  THEN pick_lost_raises(ant.velocity, nbrs, p)
                  ELSE NoError
        target_node == nbrs[pick.dir]
        seen == [id |-> ant.id, from |-> ant.current_node, level |-> level,
                 status_before |-> ant.status, status |-> status,
                 velocity_before |-> ant.velocity,
                 branch |-> pick.branch, dir |-> pick.dir]
    IN  IF raised # NoError
        THEN [result |-> None, raised |-> raised,
              ant |-> [ant EXCEPT !.status = status],
              pheromone |-> ph,
              seen |-> seen]
        ELSE IF target_node = None
        THEN [result |-> OFF_GRID, raised |-> NoError,
              ant |-> [ant EXCEPT !.status = status, !.velocity = pick.dir],
              pheromone |-> ph,
              seen |-> seen]
        ELSE [result |-> SUCCESS, raised |-> NoError,
              ant |-> [ant EXCEPT !.status = status,
                                  !.current_node = target_node,
                                  !.velocity = pick.dir],
              pheromone |-> [ph EXCEPT ![target_node] = add_pheromone(@, p.tau)],
              seen |-> seen]

\* Ant.move with the draws u (random.random) and r (random.choices) it may
\* consume.  Returns the MoveResult (None when the call raised), the
\* exception it raised (NoError when it returned), the ant and the pheromone
\* field after the call, and what the call read and decided.
move(ant, ph, p, u, r) ==
    LET level == ph[ant.current_node]
        status == FidelityCheck(ant, ph, p, u)
        nbrs == neighbors(p.world_size, ant.current_node)
        pick == IF status = LOST
                THEN [dir |-> pick_lost(ant.velocity, p, r), branch |-> "lost"]
                ELSE pick_following(ant.velocity, nbrs, ph, p, r)
        raised == IF pick.branch \in {"lost", "ended", "indistinct"}
                  THEN pick_lost_raises(ant.velocity, nbrs, p)
                  ELSE NoError
        target_node == nbrs[pick.dir]
        seen == [id |-> ant.id, from |-> ant.current_node, level |-> level,
                 status_before |-> ant.status, status |-> status,
                 velocity_before |-> ant.velocity,
                 branch |-> pick.branch, dir |-> pick.dir]
    IN  IF raised # NoError
        THEN [result |-> None, raised |-> raised,
              ant |-> [ant EXCEPT !.status = status],
              pheromone |-> ph,
              seen |-> seen]
        ELSE IF target_node = None
        THEN [result |-> OFF_GRID, raised |-> NoError,
              ant |-> [ant EXCEPT !.status = status],
              pheromone |-> ph,
              seen |-> seen]
        ELSE [result |-> SUCCESS, raised |-> NoError,
              ant |-> [ant EXCEPT !.status = status,
                                  !.current_node = target_node,
                                  !.velocity = pick.dir],
              pheromone |-> [ph EXCEPT ![target_node] = add_pheromone(@, p.tau)],
              seen |-> seen]

(***************************************************************************)
(* AntWorld.                                                               *)
(*   params, pheromone (the lattice's levels, by node position),           *)
(*   nest_node, ants (in list order), timestep: the fields of the world.   *)
(*   moves: what each Ant.move call of the last operation read, decided    *)
(*          and returned, in call order.                                   *)
(*   pre:   the operation that produced this state and the world it        *)
(*          started from (for step: the ants just after the spawn).        *)
(***************************************************************************)
VARIABLES params, pheromone, nest_node, ants, timestep, moves, pre

vars == <<params, pheromone, nest_node, ants, timestep, moves, pre>>

\* LatticeBuilders.square_lattice: every node starts at pheromone_level 0
square_lattice(world_size) == [n \in Nodes(world_size) |-> 0]

\* the nest looked up at the origin
NestOf_Origin(p) == get_node_at(p.world_size, <<0, 0>>)

\* the nest lookup of AntWorld.__init__ and AntWorld.reset
NestOf(p) == get_node_at(p.world_size, <<p.world_size \div 2, p.world_size \div 2>>)

\* list.pop(0) in place of list.remove(x)
ListRemove_Head(list, x) == Tail(list)

\* list.remove(x): drops the first entry that is x (ants compare by identity)
ListRemove(list, x) ==
    LET at == CHOOSE i \in 1..Len(list) :
                /\ list[i].id = x.id
                /\ \A j \in 1..(i - 1) : list[j].id # x.id
    IN  [k \in 1..(Len(list) - 1) |-> IF k < at THEN list[k] ELSE list[k + 1]]

\* Ant.move that also takes its new velocity from a source the draws u and
\* r do not cover
MoveCalls_Unseeded(ant, ph, p) ==
    {[m EXCEPT !.ant.velocity = v] :
        m \in {move(ant, ph, p, u, r) : u \in UDraws(p), r \in RDraws(p)}, v \in Dirs}

\* the set of (u, r) pairs one Ant.move call can draw
MoveCalls(ant, ph, p) ==
    {move(ant, ph, p, u, r) : u \in UDraws(p), r \in RDraws(p)}

RECURSIVE ForAnts_Snapshot(_, _, _, _, _)
\* the loop with every ant deciding on the lattice as it was when the step
\* began (the variable pheromone), the deposits being gathered in ph
ForAnts_Snapshot(i, list, ph, done, p) ==
    IF i > Len(list)
    THEN {[ants |-> list, pheromone |-> ph, moves |-> done, raised |-> NoError]}
    ELSE UNION {
            LET moved == [list EXCEPT ![i] = m.ant]
                after == [n \in DOMAIN ph |-> ph[n] + m.pheromone[n] - pheromone[n]]
            IN   IF m.result = OFF_GRID
                THEN ForAnts_Snapshot(i + 1, ListRemove(moved, m.ant), after,
                                      Append(done, m.seen @@ [result |-> m.result]), p)
                ELSE ForAnts_Snapshot(i + 1, moved, after,
                                      Append(done, m.seen @@ [result |-> m.result]), p)
            : m \in MoveCalls(list[i], pheromone, p) }

RECURSIVE ForAnts(_, _, _, _, _)
\* `for ant in self.ants:` of AntWorld.step, from list-iterator index i
\* (1-based here): the iterator yields list[i] while i is within the list
\* as it is now, and then moves on to i + 1 whatever the body did to the
\* list; an exception of ant.move leaves the loop.  Returns every world the
\* loop can end in, with the exception that ended it.
ForAnts(i, list, ph, done, p) ==
    IF i > Len(list)
    THEN {[ants |-> list, pheromone |-> ph, moves |-> done, raised |-> NoError]}
    ELSE UNION {
            LET moved == [list EXCEPT ![i] = m.ant]
            IN   IF m.raised # NoError
                THEN {[ants |-> moved, pheromone |-> m.pheromone,
                       moves |-> Append(done, m.seen @@ [result |-> m.result]),
                       raised |-> m.raised]}
                ELSE IF m.result = OFF_GRID
                THEN ForAnts(i + 1, ListRemove(moved, m.ant), m.pheromone,
                             Append(done, m.seen @@ [result |-> m.result]), p)
                ELSE ForAnts(i + 1, moved, m.pheromone,
                             Append(done, m.seen @@ [result |-> m.result]), p)
            : m \in MoveCalls(list[i], ph, p) }

\* self.ants.insert(0, Ant(self.nest_node)) in place of append
Spawn_Front(list, id, nest, heading) == <<Ant(id, nest, heading)>> \o list

\* self.ants.append(Ant(self.nest_node)), with the heading the new ant drew
Spawn(list, id, nest, heading) == Append(list, Ant(id, nest, heading))

\* AntWorld.__init__; nest_node is None when the constructor raised
\* ValueError and returned no world
Init ==
    /\ params \in WorldParamChoices
    /\ pheromone = square_lattice(params.world_size)
    /\ nest_node = NestOf(params)
    /\ ants = <<>>
    /\ timestep = 0
    /\ moves = <<>>
    /\ pre = [op |-> "init", calls |-> 0]

\* AntWorld.step; an exception of the loop skips the evaporation
Step ==
    /\ nest_node # None
    /\ timestep < MaxSteps
    /\ \E heading \in Dirs :
        LET spawned == Spawn(ants, timestep + 1, nest_node, heading)
        IN  \E end \in ForAnts(1, spawned, pheromone, <<>>, params) :
                /\ timestep' = timestep + 1
                /\ ants' = end.ants
                /\ pheromone' = IF end.raised = NoError
                                 THEN evaporate_all_pheromones(end.pheromone, params)
                                 ELSE end.pheromone
                /\ moves' = end.moves
                /\ pre' = [op |-> "step", calls |-> pre.calls + 1,
                           ants |-> ants, spawned |-> spawned,
                           pheromone |-> pheromone, timestep |-> timestep,
                           raised |-> end.raised]
    /\ UNCHANGED <<params, nest_node>>

\* reset that leaves the ants of the old lattice in the collection
Reset_KeepAnts ==
    /\ nest_node # None
    /\ pheromone' = square_lattice(params.world_size)
    /\ IF NestOf(params) = None
       THEN UNCHANGED <<nest_node, ants, timestep>>
       ELSE /\ nest_node' = NestOf(params)
            /\ ants' = ants
            /\ timestep' = 0
    /\ moves' = <<>>
    /\ pre' = [op |-> "reset", calls |-> 0, params |-> params, timestep |-> timestep,
               raised |-> IF NestOf(params) = None THEN "ValueError" ELSE NoError]
    /\ UNCHANGED params

\* AntWorld.reset; when the nest lookup fails it raises ValueError with the
\* lattice already replaced
Reset ==
    /\ nest_node # None
    /\ pheromone' = square_lattice(params.world_size)
    /\ IF NestOf(params) = None
       THEN UNCHANGED <<nest_node, ants, timestep>>
       ELSE /\ nest_node' = NestOf(params)
            /\ ants' = <<>>
            /\ timestep' = 0
    /\ moves' = <<>>
    /\ pre' = [op |-> "reset", calls |-> 0, params |-> params, timestep |-> timestep,
               raised |-> IF NestOf(params) = None THEN "ValueError" ELSE NoError]
    /\ UNCHANGED params

Next == Step \/ Reset

Spec == Init /\ [][Next]_vars

(***************************************************************************)
(* Properties of the world's step protocol (specification Spec).           *)
(***************************************************************************)
IdsOf(list) == [i \in 1..Len(list) |-> list[i].id]

\* the ants whose move returned OFF_GRID in the last step
OffGridIds == {moves[i].id : i \in {j \in 1..Len(moves) : moves[j].result = OFF_GRID}}

\* the node a move ended on, None for an OFF_GRID move
EndNode(mv) == IF mv.result = SUCCESS THEN Target(mv.from, mv.dir) ELSE None

\* C1: in one step, every ant of the collection as it is after the spawn
\* performs the move algorithm exactly once, in spawn order, also when an
\* earlier ant of the step returned OFF_GRID and was removed.
C1_EveryAntMovesOnceInOrder ==
    pre.op = "step" => IdsOf(moves) = IdsOf(pre.spawned)

\* C2: a step adds 1 to timestep and appends one new ant (at the nest,
\* LOST) at the end of the collection; len(ants) after = len(ants) before
\* + 1 - (ants removed for OFF_GRID); timestep is the number of steps taken
\* and len(ants) <= timestep.
C2_StepCountsTimeAndAnts ==
    /\ timestep = pre.calls
    /\ Len(ants) <= timestep
    /\ pre.op = "step" =>
        LET new == pre.spawned[Len(pre.spawned)]
        IN  /\ timestep = pre.timestep + 1
            /\ Len(pre.spawned) = Len(pre.ants) + 1
            /\ SubSeq(pre.spawned, 1, Len(pre.ants)) = pre.ants
            /\ new.current_node = nest_node
            /\ new.status = LOST
            /\ \A i \in 1..Len(pre.ants) : pre.ants[i].id # new.id
            /\ \A i \in 1..Len(ants) : ants[i].id = new.id => i = Len(ants)
            /\ Len(ants) = Len(pre.ants) + 1 - Cardinality(OffGridIds)

\* a second step that removed an ant and left one in the collection
C2_Witness ==
    /\ pre.op = "step"
    /\ timestep = 2
    /\ Len(pre.ants) = 1
    /\ Cardinality(OffGridIds) = 1
    /\ Len(ants) = 1

\* C3: at the end of a step the collection holds no ant whose move returned
\* OFF_GRID and every ant whose move returned SUCCESS, the survivors in
\* their spawn order.
C3_OffGridAntsRemovedOthersKept ==
    pre.op = "step" =>
        /\ IdsOf(ants) = SelectSeq(IdsOf(pre.spawned), LAMBDA id : id \notin OffGridIds)
        /\ \A i \in 1..Len(moves) :
              moves[i].result = SUCCESS => \E j \in 1..Len(ants) : ants[j].id = moves[i].id
        /\ \A i \in 1..Len(moves) :
              moves[i].result = OFF_GRID => \A j \in 1..Len(ants) : ants[j].id # moves[i].id

\* a step in which one ant stayed on the grid and a later one left it
C3_Witness ==
    /\ pre.op = "step"
    /\ \E i, j \in 1..Len(moves) :
          i < j /\ moves[i].result = SUCCESS /\ moves[j].result = OFF_GRID

\* C4: every node's pheromone_level is >= 0 in every reachable state;
\* evaporation leaves max(0, level - evaporation_rate) on a node no ant
\* moved onto.
C4_PheromoneNeverNegative ==
    /\ \A n \in DOMAIN pheromone : pheromone[n] >= 0
    /\ pre.op = "step" =>
          \A n \in DOMAIN pheromone :
              (\A i \in 1..Len(moves) : EndNode(moves[i]) # n) =>
                  pheromone[n] = Max(0, pre.pheromone[n] - params.evaporation_rate)

\* a step evaporated a node that was at 0 (the floor applied) and one that
\* an earlier step had left above 0
C4_Witness ==
    /\ pre.op = "step"
    /\ \E n, m \in DOMAIN pheromone :
          /\ \A i \in 1..Len(moves) : EndNode(moves[i]) # n /\ EndNode(moves[i]) # m
          /\ pre.pheromone[n] = 0 /\ pheromone[n] = 0
          /\ pre.pheromone[m] > 0 /\ pheromone[m] = pre.pheromone[m] - params.evaporation_rate

(***************************************************************************)
(* Single calls: one ant on a lattice whose pheromone levels were set by   *)
(* hand (node.add_pheromone, ant.velocity = ..., ant.status = ... as the   *)
(* unit tests do), then one call of Ant.move.                              *)
(***************************************************************************)
Levels == 0..MaxLevel

Fields(world_size) == [Nodes(world_size) -> Levels]

InitCall ==
    /\ params \in CallParamChoices
    /\ pheromone \in Fields(params.world_size)
    /\ nest_node = NestOf(params)
    /\ \E node \in Nodes(params.world_size), heading \in Dirs, status \in {LOST, FOLLOWING} :
          ants = <<[Ant(1, node, heading) EXCEPT !.status = status]>>
    /\ timestep = 0
    /\ moves = <<>>
    /\ pre = [op |-> "init", calls |-> 0]

\* result = ant.move(params, lattice)
CallMove ==
    /\ pre.op = "init"
    /\ \E u \in UDraws(params), r \in RDraws(params) :
        LET m == move(ants[1], pheromone, params, u, r)
        IN  /\ ants' = <<m.ant>>
            /\ pheromone' = m.pheromone
            /\ moves' = <<m.seen @@ [result |-> m.result, u |-> u]>>
            /\ pre' = [op |-> "move", ants |-> ants, pheromone |-> pheromone,
                       timestep |-> timestep, raised |-> m.raised]
    /\ UNCHANGED <<params, nest_node, timestep>>

\* prob = ant.get_fidelity_probability(params)
CallGetFidelityProbability ==
    /\ pre.op = "init"
    /\ ants[1].status = LOST
    /\ moves' = <<[id |-> ants[1].id,
                   level |-> pheromone[ants[1].current_node],
                   prob |-> get_fidelity_probability(pheromone[ants[1].current_node], params)]>>
    /\ pre' = [op |-> "get_fidelity_probability", ants |-> ants,
               pheromone |-> pheromone, timestep |-> timestep]
    /\ UNCHANGED <<params, pheromone, nest_node, ants, timestep>>

\* lattice.evaporate_all_pheromones(params)
CallEvaporateAllPheromones ==
    /\ pre.op = "init"
    /\ pheromone' = evaporate_all_pheromones(pheromone, params)
    /\ moves' = <<>>
    /\ pre' = [op |-> "evaporate_all_pheromones", ants |-> ants,
               pheromone |-> pheromone, timestep |-> timestep,
               params |-> params, nest_node |-> nest_node]
    /\ UNCHANGED <<params, nest_node, ants, timestep>>

NextCall == CallMove \/ CallGetFidelityProbability \/ CallEvaporateAllPheromones

SpecCall == InitCall /\ [][NextCall]_vars

(***************************************************************************)
(* Properties of single calls (specification SpecCall).  pre holds the ant *)
(* and the lattice the call was made on, moves[1] what the call did.       *)
(***************************************************************************)
CallAnt == pre.ants[1]
CallLevel == pre.pheromone[CallAnt.current_node]
CallNbrs == neighbors(params.world_size, CallAnt.current_node)

\* neighbour present, its pheromone_level > 0, within 45 degrees of velocity
Candidates ==
    {d \in Dirs : /\ CallNbrs[d] # None
                  /\ pre.pheromone[CallNbrs[d]] > 0
                  /\ Abs(relative(CallAnt.velocity, d)) <= 45}

\* the directions the turning kernel gives a positive weight from heading v
PositiveDirs(v) == {d \in Dirs : params.B[relative(v, d)] > 0}

\* the move consulted pick_following
Followed == pre.op = "move" /\ moves[1].status = FOLLOWING

RECURSIVE LostDraws(_, _)
\* what pick_lost returns from heading v for the draws 0 .. n-1, in order
LostDraws(v, n) ==
    IF n = 0 THEN <<>> ELSE Append(LostDraws(v, n - 1), pick_lost(v, params, n - 1))

Flip(status) == IF status = LOST THEN FOLLOWING ELSE LOST

C6_FidelityProbabilityValues ==
    pre.op = "get_fidelity_probability" =>
        LET P == moves[1].prob
            p == params
        IN  /\ P.den > 0
            /\ CallLevel >= p.C_s =>
                  P.num * p.prob_den = (p.phi_low + p.delta_phi) * P.den
            /\ (0 < CallLevel /\ CallLevel < p.C_s) =>
                  P.num * (p.prob_den * p.C_s) = (p.phi_low * p.C_s + p.delta_phi * CallLevel) * P.den
            /\ CallLevel = 0 => P.num * p.prob_den = p.phi_low * P.den

\* the call was made on a node with a level strictly between 0 and C_s
C6_Witness ==
    /\ pre.op = "get_fidelity_probability"
    /\ 0 < CallLevel
    /\ CallLevel < params.C_s

\* C7: pick_lost gives the direction at (velocity + k) mod 360 the weight
\* B[k], for all 8 directions, whatever the neighbours and the pheromone
\* levels; its possible results are exactly the directions with positive
\* weight, absent neighbours included.
C7_LostDrawsByKernel ==
    (pre.op = "move" /\ moves[1].branch = "lost") =>
        LET v == CallAnt.velocity
            drawn == LostDraws(v, Cardinality(RDraws(params)))
        IN  /\ \A k \in Offsets :
                  Cardinality({i \in 1..Len(drawn) : drawn[i] = (v + k) % 360}) = params.B[k]
            /\ {drawn[i] : i \in 1..Len(drawn)} = PositiveDirs(v)
            /\ moves[1].dir \in PositiveDirs(v)
            /\ moves[1].result = OFF_GRID <=> CallNbrs[moves[1].dir] = None

\* a lost ant drew a direction without a neighbour while a neighbour of its
\* node carried pheromone
C7_Witness ==
    /\ pre.op = "move"
    /\ moves[1].branch = "lost"
    /\ moves[1].result = OFF_GRID
    /\ \E d \in Dirs : CallNbrs[d] # None /\ pre.pheromone[CallNbrs[d]] > 0

\* C8: when the neighbour in the direction of velocity is present and has
\* pheromone_level > 0, pick_following returns velocity, even if another
\* candidate carries more pheromone.
C8_ForwardPreferred ==
    (/\ Followed
     /\ CallNbrs[CallAnt.velocity] # None
     /\ pre.pheromone[CallNbrs[CallAnt.velocity]] > 0) =>
        /\ moves[1].dir = CallAnt.velocity
        /\ moves[1].result = SUCCESS
        /\ ants[1].current_node = CallNbrs[CallAnt.velocity]

\* forward was taken at a fork where another candidate had a higher level
C8_Witness ==
    /\ Followed
    /\ CallAnt.velocity \in Candidates
    /\ moves[1].dir = CallAnt.velocity
    /\ \E d \in Candidates :
          pre.pheromone[CallNbrs[d]] > pre.pheromone[CallNbrs[CallAnt.velocity]]

IndistinctFork ==
    /\ Cardinality(Candidates) >= 2
    /\ CallAnt.velocity \notin Candidates
    /\ \/ \A c, d \in Candidates : pre.pheromone[CallNbrs[c]] = pre.pheromone[CallNbrs[d]]
       \/ \A c \in Candidates : pre.pheromone[CallNbrs[c]] >= params.C_s

\* C10: at such a fork the result is drawn by the Lost Algorithm over all 8
\* directions: every direction with positive kernel weight can be returned.
C10_IndistinctForkActsLost ==
    (Followed /\ IndistinctFork) =>
        /\ moves[1].dir \in PositiveDirs(CallAnt.velocity)
        /\ {pick_following(CallAnt.velocity, CallNbrs, pre.pheromone, params, r).dir :
                r \in RDraws(params)} = PositiveDirs(CallAnt.velocity)
        /\ \A r \in RDraws(params) :
              pick_following(CallAnt.velocity, CallNbrs, pre.pheromone, params, r).dir
                  = pick_lost(CallAnt.velocity, params, r)

\* both candidates saturated at different levels, and the ant went somewhere
\* that is not a candidate
C10_Witness ==
    /\ Followed
    /\ IndistinctFork
    /\ \E c, d \in Candidates : pre.pheromone[CallNbrs[c]] # pre.pheromone[CallNbrs[d]]
    /\ moves[1].dir \notin Candidates

(***************************************************************************)
(* Direct calls of pick_following, as the unit tests make them: an ant on  *)
(* the interior node of a lattice, pheromone added by hand to some of the  *)
(* node's neighbours, ant.velocity set, then                               *)
(* ant.pick_following(params, node.neighbors).                             *)
(***************************************************************************)
PickParamChoices == {WorldParams(2, KernelFull, 1, 2, 2, 4, 1, 3)}

\* the lattices in which at most MaxTrails nodes, none of them the ant's own,
\* carry pheromone
TrailFields(world_size, own) ==
    {f \in Fields(world_size) :
        /\ f[own] = 0
        /\ Cardinality({n \in Nodes(world_size) : f[n] > 0}) <= MaxTrails}

InitPick ==
    /\ params \in PickParamChoices
    /\ nest_node = NestOf(params)
    /\ pheromone \in TrailFields(params.world_size, nest_node)
    /\ \E heading \in Dirs : ants = <<Ant(1, nest_node, heading)>>
    /\ timestep = 0
    /\ moves = <<>>
    /\ pre = [op |-> "init", calls |-> 0]

\* direction = ant.pick_following(params, ant.current_node.neighbors)
CallPickFollowing ==
    /\ pre.op = "init"
    /\ \E r \in RDraws(params) :
        LET pick == pick_following(ants[1].velocity,
                                   neighbors(params.world_size, ants[1].current_node),
                                   pheromone, params, r)
        IN  moves' = <<[id |-> ants[1].id, dir |-> pick.dir, branch |-> pick.branch]>>
    /\ pre' = [op |-> "pick_following", ants |-> ants, pheromone |-> pheromone,
               timestep |-> timestep]
    /\ UNCHANGED <<params, pheromone, nest_node, ants, timestep>>

NextPick == CallPickFollowing

SpecPick == InitPick /\ [][NextPick]_vars

(***************************************************************************)
(* Properties of direct pick_following calls (specification SpecPick).     *)
(***************************************************************************)
\* the neighbours that carry pheromone
Carriers == {d \in Dirs : CallNbrs[d] # None /\ pre.pheromone[CallNbrs[d]] > 0}

\* the carriers other than the neighbour directly behind the ant
NotBehind == {d \in Carriers : d # opposite(CallAnt.velocity)}

\* what pick_following can return on the lattice of the call
PickResults ==
    {pick_following(CallAnt.velocity, CallNbrs, pre.pheromone, params, r).dir :
        r \in RDraws(params)}

\* C11: (after the unit tests) pick_following takes every neighbour with
\* pheromone except the one directly behind as a candidate: a single carrier
\* at 90 degrees from velocity is returned, and when the forward neighbour
\* has none and the carriers beside and behind have pairwise distinct levels,
\* the highest carrier that is not directly behind is returned.
C11_SidewaysCarriersAreCandidates ==
    pre.op = "pick_following" =>
        /\ \A d \in Dirs :
              (Carriers = {d} /\ Abs(relative(CallAnt.velocity, d)) = 90) =>
                  moves[1].dir = d
        /\ (/\ Cardinality(NotBehind) >= 2
            /\ \A d \in Carriers : Abs(relative(CallAnt.velocity, d)) >= 90
            /\ \A c, d \in Carriers :
                  c # d => pre.pheromone[CallNbrs[c]] # pre.pheromone[CallNbrs[d]]) =>
              /\ moves[1].dir \in NotBehind
              /\ \A d \in NotBehind :
                    pre.pheromone[CallNbrs[d]] <= pre.pheromone[CallNbrs[moves[1].dir]]

\* C12: (after the unit tests) with no pheromone straight ahead and two or
\* more carriers that are all at one level or all at or above C_s,
\* pick_following acts as a lost ant: with all kernel weights positive each
\* of the 8 directions is a possible result.
C12_LevelOrSaturatedForkActsLost ==
    (/\ pre.op = "pick_following"
     /\ CallAnt.velocity \notin Carriers
     /\ Cardinality(Carriers) >= 2
     /\ \/ \A c, d \in Carriers : pre.pheromone[CallNbrs[c]] = pre.pheromone[CallNbrs[d]]
        \/ \A c \in Carriers : pre.pheromone[CallNbrs[c]] >= params.C_s
     /\ \A k \in Offsets : params.B[k] > 0) =>
        PickResults = Dirs

(***************************************************************************)
(* Exceptions of the world's operations (specification Spec).              *)
(***************************************************************************)
\* C13: step never raises on a world built from valid parameters: every
\* move returns SUCCESS or OFF_GRID, the neighbours mapping of every node has
\* the 8 entries pick_lost asserts and the kernel has the key of every
\* relative angle, and an OFF_GRID result only removes that ant from the
\* collection.
C13_StepNeverRaises ==
    /\ \A n \in DOMAIN pheromone, v \in Dirs :
          pick_lost_raises(v, neighbors(params.world_size, n), params) = NoError
    /\ pre.op = "step" =>
          /\ pre.raised = NoError
          /\ \A i \in 1..Len(moves) : moves[i].result \in {SUCCESS, OFF_GRID}
          /\ IdsOf(ants) = SelectSeq(IdsOf(pre.spawned), LAMBDA id : id \notin OffGridIds)
          /\ timestep = pre.timestep + 1

\* a step in which a lost ant on the lattice's edge drew a direction without
\* a neighbour, after an ant that followed a trail
C13_Witness ==
    /\ pre.op = "step"
    /\ \E i, j \in 1..Len(moves) :
          /\ i < j
          /\ moves[i].status = FOLLOWING
          /\ moves[j].branch = "lost"
          /\ moves[j].result = OFF_GRID

(***************************************************************************)
(* Lattices on their own, as TestLatticeBuilder and TestLatticeAndNodes    *)
(* use them: lattice = LatticeBuilders.square_lattice(n), then one lookup. *)
(* No world is built: nest_node is None and there are no ants.             *)
(***************************************************************************)
LatticeSizes == 1..MaxWorldSize

\* the positions looked up: every node and the ring just outside the lattice
Probes(world_size) == (-1..world_size) \X (-1..world_size)

InitLattice ==
    /\ \E n \in LatticeSizes : params = WorldParams(2, KernelFull, 1, 2, 2, 4, 1, n)
    /\ pheromone = square_lattice(params.world_size)
    /\ nest_node = None
    /\ ants = <<>>
    /\ timestep = 0
    /\ moves = <<>>
    /\ pre = [op |-> "init", calls |-> 0]

\* node = lattice.get_node_at(position)
CallGetNodeAt ==
    /\ pre.op = "init"
    /\ \E position \in Probes(params.world_size) :
          moves' = <<[position |-> position,
                      result |-> get_node_at(params.world_size, position)]>>
    /\ pre' = [op |-> "get_node_at", calls |-> 0]
    /\ UNCHANGED <<params, pheromone, nest_node, ants, timestep>>

\* neighbors = lattice.get_neighbors(node)
CallGetNeighbors ==
    /\ pre.op = "init"
    /\ \E node \in DOMAIN pheromone :
          moves' = <<[node |-> node, result |-> neighbors(params.world_size, node)]>>
    /\ pre' = [op |-> "get_neighbors", calls |-> 0]
    /\ UNCHANGED <<params, pheromone, nest_node, ants, timestep>>

\* result = LatticeDir.opposite(direction); twice is the opposite of the
\* result when the call returned one
CallOpposite ==
    /\ pre.op = "init"
    /\ \E direction \in Dirs :
          LET result == opposite(direction)
          IN  moves' = <<[direction |-> direction, result |-> result,
                          twice |-> IF result \in Dirs THEN opposite(result) ELSE None]>>
    /\ pre' = [op |-> "opposite", calls |-> 0]
    /\ UNCHANGED <<params, pheromone, nest_node, ants, timestep>>

\* result = self.relative(other)
CallRelative ==
    /\ pre.op = "init"
    /\ \E self \in Dirs, other \in Dirs :
          moves' = <<[self |-> self, other |-> other, result |-> relative(self, other)]>>
    /\ pre' = [op |-> "relative", calls |-> 0]
    /\ UNCHANGED <<params, pheromone, nest_node, ants, timestep>>

NextLattice == CallGetNodeAt \/ CallGetNeighbors \/ CallOpposite \/ CallRelative

SpecLattice == InitLattice /\ [][NextLattice]_vars

(***************************************************************************)
(* Properties of lattices (specification SpecLattice, C16 under Spec).     *)
(***************************************************************************)
\* C14: square_lattice(N) has exactly N*N nodes, one at every (x, y) with
\* 0 <= x, y < N; get_node_at returns the node at a position in that range
\* and None for a position outside it.
C14_NodesAndLookup ==
    LET N == params.world_size
    IN  /\ Cardinality(DOMAIN pheromone) = N * N
        /\ \A x, y \in 0..(N - 1) : <<x, y>> \in DOMAIN pheromone
        /\ pre.op = "get_node_at" =>
              LET x == moves[1].position[1]
                  y == moves[1].position[2]
              IN  IF 0 <= x /\ x < N /\ 0 <= y /\ y < N
                  THEN /\ moves[1].result = <<x, y>>
                       /\ moves[1].result \in DOMAIN pheromone
                  ELSE moves[1].result = None

\* a lookup one column past the right edge of a 3 x 3 lattice returned None
C14_Witness ==
    /\ pre.op = "get_node_at"
    /\ params.world_size = 3
    /\ moves[1].position = <<3, 0>>
    /\ moves[1].result = None

\* the coordinate offsets of a direction: NORTH is y - 1, EAST is x + 1
DX(d) ==
    IF d \in {NORTHEAST, EAST, SOUTHEAST} THEN 1
    ELSE IF d \in {SOUTHWEST, WEST, NORTHWEST} THEN -1 ELSE 0

DY(d) ==
    IF d \in {NORTHWEST, NORTH, NORTHEAST} THEN -1
    ELSE IF d \in {SOUTHEAST, SOUTH, SOUTHWEST} THEN 1 ELSE 0

\* the directions in which node n has a neighbour
Present(n) == {d \in Dirs : neighbors(params.world_size, n)[d] # None}

\* on how many of the two axes n lies on the border of the lattice
BorderAxes(n) ==
    Cardinality({i \in {1, 2} : n[i] = 0 \/ n[i] = params.world_size - 1})

\* every neighbours mapping has the 8 direction keys, and an entry is the
\* node at the geometric target when that is in bounds, None otherwise
NeighboursByGeometry ==
    LET N == params.world_size
    IN  \A n \in DOMAIN pheromone :
            LET nb == neighbors(N, n)
            IN  /\ DOMAIN nb = Dirs
                /\ Cardinality(DOMAIN nb) = 8
                /\ \A d \in Dirs :
                      LET x == n[1] + DX(d)
                          y == n[2] + DY(d)
                      IN  IF 0 <= x /\ x < N /\ 0 <= y /\ y < N
                          THEN nb[d] = <<x, y>> /\ nb[d] \in DOMAIN pheromone
                          ELSE nb[d] = None

\* C15 as stated: in a square lattice of any size N every neighbours mapping
\* has 8 entries, present exactly for the in-bounds geometric targets; corner
\* nodes have exactly 3 present neighbours ((0,0): East, South, Southeast),
\* non-corner edge nodes exactly 5, interior nodes exactly 8.
C15_NeighbourCountsAnySize ==
    /\ NeighboursByGeometry
    /\ Present(<<0, 0>>) = {EAST, SOUTH, SOUTHEAST}
    /\ \A n \in DOMAIN pheromone :
          Cardinality(Present(n)) = CASE BorderAxes(n) = 2 -> 3
                                      [] BorderAxes(n) = 1 -> 5
                                      [] OTHER -> 8

\* C15, amended: the mapping is as stated for every N; the counts 3 (corner,
\* (0,0): East, South, Southeast), 5 (non-corner edge) and 8 (interior) hold
\* for N >= 2, and the single node of the 1 x 1 lattice has no present
\* neighbour.
C15_NeighbourCounts ==
    /\ NeighboursByGeometry
    /\ params.world_size >= 2 =>
          /\ Present(<<0, 0>>) = {EAST, SOUTH, SOUTHEAST}
          /\ \A n \in DOMAIN pheromone :
                Cardinality(Present(n)) = CASE BorderAxes(n) = 2 -> 3
                                            [] BorderAxes(n) = 1 -> 5
                                            [] OTHER -> 8
    /\ params.world_size = 1 => Present(<<0, 0>>) = {}
    /\ pre.op = "get_neighbors" =>
          {d \in Dirs : moves[1].result[d] # None} = Present(moves[1].node)

\* get_neighbors was called on an edge node that is no corner, in a lattice
\* that also has corners and an interior node
C15_Witness ==
    /\ pre.op = "get_neighbors"
    /\ params.world_size >= 3
    /\ BorderAxes(moves[1].node) = 1
    /\ Cardinality({d \in Dirs : moves[1].result[d] # None}) = 5

\* C16: neighbour links are symmetric in every reachable state of a world:
\* if A's neighbour in direction d is B, then B's neighbour in direction
\* opposite(d) is A.
C16_LinksSymmetric ==
    \A A \in DOMAIN pheromone, d \in Dirs :
        LET B == neighbors(params.world_size, A)[d]
        IN  B # None =>
                /\ B \in DOMAIN pheromone
                /\ neighbors(params.world_size, B)[opposite(d)] = A

\* an ant went from A to B along a diagonal link in a step, and B's link in
\* the opposite direction leads back to A
C16_Witness ==
    /\ pre.op = "step"
    /\ \E i \in 1..Len(moves) :
          /\ moves[i].result = SUCCESS
          /\ moves[i].dir \in {NORTHEAST, SOUTHEAST, SOUTHWEST, NORTHWEST}
          /\ neighbors(params.world_size, EndNode(moves[i]))[opposite(moves[i].dir)]
                = moves[i].from

(***************************************************************************)
(* Evaporation called on its own (specification SpecCall).                 *)
(***************************************************************************)
\* C17: evaporate_all_pheromones leaves on every node the level it had minus
\* evaporation_rate, floored at 0, and changes nothing else: the nodes, the
\* parameters (so the links), the nest, the ants and the timestep stay.
C17_EvaporationLowersEveryNode ==
    pre.op = "evaporate_all_pheromones" =>
        /\ DOMAIN pheromone = DOMAIN pre.pheromone
        /\ \A n \in DOMAIN pheromone :
              pheromone[n] = IF pre.pheromone[n] >= params.evaporation_rate
                             THEN pre.pheromone[n] - params.evaporation_rate
                             ELSE 0
        /\ params = pre.params
        /\ nest_node = pre.nest_node
        /\ ants = pre.ants
        /\ timestep = pre.timestep

\* one node stayed at 0 while another went from the highest level to one
\* below it, under an ant that was following
C17_Witness ==
    /\ pre.op = "evaporate_all_pheromones"
    /\ ants[1].status = FOLLOWING
    /\ \E n, m \in DOMAIN pheromone :
          /\ pre.pheromone[n] = 0 /\ pheromone[n] = 0
          /\ pre.pheromone[m] = MaxLevel /\ pheromone[m] = MaxLevel - 1

(***************************************************************************)
(* Construction and reset of the world (specification Spec).               *)
(***************************************************************************)
\* C18: reset leaves exactly the world a fresh AntWorld(params) is: a
\* lattice of world_size^2 nodes all at level 0, the nest at
\* (world_size // 2, world_size // 2), no ants, timestep 0, and the params it
\* had before.  Neither the constructor nor reset fails to find the nest,
\* and for every world_size from 1 up the nest position is a node.
C18_ResetGivesFreshWorld ==
    LET N == params.world_size
    IN  /\ nest_node # None
        /\ \A n \in LatticeSizes : <<n \div 2, n \div 2>> \in Nodes(n)
        /\ pre.op = "init" =>
              /\ nest_node = <<N \div 2, N \div 2>>
              /\ nest_node \in DOMAIN pheromone
        /\ pre.op = "reset" =>
              /\ pre.raised = NoError
              /\ params = pre.params
              /\ Cardinality(DOMAIN pheromone) = N * N
              /\ \A n \in DOMAIN pheromone : pheromone[n] = 0
              /\ nest_node = <<N \div 2, N \div 2>>
              /\ nest_node \in DOMAIN pheromone
              /\ ants = <<>>
              /\ timestep = 0
              /\ pheromone = square_lattice(N)
              /\ nest_node = NestOf(params)

\* reset was called on a world that had run MaxSteps steps
C18_Witness ==
    /\ pre.op = "reset"
    /\ pre.timestep = MaxSteps
    /\ timestep = 0
    /\ ants = <<>>

(***************************************************************************)
(* WorldParams.__init__ called on its own.  In these calls the values of B *)
(* are numerators over KernelDen, fine enough to separate sums on the two  *)
(* sides of the tolerance 1e-6; phi_low and delta_phi are numerators over  *)
(* prob_den.  params holds the arguments of the call.                      *)
(***************************************************************************)
\* 1 / 1e-6, the tolerance of the sum test
InvTolerance == 1000000

KernelDen == 10 * InvTolerance

\* the kernel of default_small at a key, signed or unsigned:
\* 0.44, 0.1, 0.08, 0.05 and 0.1 at 0, 45, 90, 135 and 180 degrees off
DefaultWeight(k) ==
    LET a == Abs(relative(NORTH, k % 360))
    IN  CASE a = 0   -> 44 * (KernelDen \div 100)
          [] a = 45  -> 10 * (KernelDen \div 100)
          [] a = 90  -> 8 * (KernelDen \div 100)
          [] a = 135 -> 5 * (KernelDen \div 100)
          [] a = 180 -> 10 * (KernelDen \div 100)

\* the key sets of the kernels passed in: the 8 signed offsets, 7 of them,
\* 9 keys, and the 8 unsigned angles
KeyChoices ==
    {Offsets, Offsets \ {180}, Offsets \cup {225}, Dirs}

\* what is added to the kernel's entry at 0: nothing, just inside and just
\* on or outside the tolerance, and what a missing or an extra key leaves
OffChoices ==
    {0, 9, -9, 10, -10, 11, -11, DefaultWeight(180), -DefaultWeight(225)}

\* phi_low and delta_phi passed in, over prob_den = 4: below 0, 0, inside,
\* 1 and above 1
ProbChoices == {-1, 0, 1, 4, 5}

\* C_s passed in: negative, 0 and positive (the constructor does not test it)
CsChoices == {-1, 0, 1, 2}

KernelArg(keys, off) ==
    [k \in keys |-> IF k = 0 THEN DefaultWeight(k) + off ELSE DefaultWeight(k)]

RECURSIVE SumOver(_, _)
\* sum(B.values())
SumOver(B, keys) ==
    IF keys = {}
    THEN 0
    ELSE LET k == CHOOSE x \in keys : TRUE
         IN  B[k] + SumOver(B, keys \ {k})

\* the asserts of WorldParams.__init__ with <= in the tolerance test
WorldParams_raises_Loose(B, b_den, phi_low, delta_phi, prob_den) ==
    IF ~(Abs(SumOver(B, DOMAIN B) - b_den) <= b_den \div InvTolerance)
    THEN "AssertionError"
    ELSE IF Cardinality(DOMAIN B) # 8
    THEN "AssertionError"
    ELSE IF ~(0 <= phi_low /\ phi_low <= prob_den)
    THEN "AssertionError"
    ELSE IF ~(0 <= delta_phi /\ delta_phi <= prob_den)
    THEN "AssertionError"
    ELSE NoError

\* the asserts of WorldParams.__init__ without the one on delta_phi
WorldParams_raises_NoDelta(B, b_den, phi_low, delta_phi, prob_den) ==
    IF ~(Abs(SumOver(B, DOMAIN B) - b_den) <= (b_den - 1) \div InvTolerance)
    THEN "AssertionError"
    ELSE IF Cardinality(DOMAIN B) # 8
    THEN "AssertionError"
    ELSE IF ~(0 <= phi_low /\ phi_low <= prob_den)
    THEN "AssertionError"
    ELSE NoError

\* the asserts at the end of WorldParams.__init__, in their order: the
\* exception the constructor raises, NoError when it returns.  The sum test
\* abs(sum - 1.0) < 1e-6 is |sum - b_den| * InvTolerance < b_den over the
\* numerators, written without the product.
WorldParams_raises(B, b_den, phi_low, delta_phi, prob_den) ==
    IF ~(Abs(SumOver(B, DOMAIN B) - b_den) <= (b_den - 1) \div InvTolerance)
    THEN "AssertionError"
    ELSE IF Cardinality(DOMAIN B) # 8
    THEN "AssertionError"
    ELSE IF ~(0 <= phi_low /\ phi_low <= prob_den)
    THEN "AssertionError"
    ELSE IF ~(0 <= delta_phi /\ delta_phi <= prob_den)
    THEN "AssertionError"
    ELSE NoError

InitParams ==
    /\ \E keys \in KeyChoices, off \in OffChoices, phi_low \in ProbChoices,
          delta_phi \in ProbChoices, C_s \in CsChoices :
          params = WorldParams(2, KernelArg(keys, off), phi_low, C_s, delta_phi, 4, 1, 3)
    /\ pheromone = <<>>
    /\ nest_node = None
    /\ ants = <<>>
    /\ timestep = 0
    /\ moves = <<>>
    /\ pre = [op |-> "init", calls |-> 0]

\* params = WorldParams(tau, B, phi_low, C_s, delta_phi, evaporation_rate,
\* world_size): result is the value returned, None when the call raised
CallWorldParams ==
    /\ pre.op = "init"
    /\ LET raised == WorldParams_raises(params.B, KernelDen, params.phi_low,
                                        params.delta_phi, params.prob_den)
       IN  moves' = <<[raised |-> raised,
                       result |-> IF raised = NoError THEN params ELSE None]>>
    /\ pre' = [op |-> "WorldParams", calls |-> 0]
    /\ UNCHANGED <<params, pheromone, nest_node, ants, timestep>>

\* prob = ant.get_fidelity_probability(params) with the params just
\* constructed, for an ant on a node at some level: prob is the value
\* returned, None when the call raised
CallGetFidelityProbabilityWith ==
    /\ pre.op = "WorldParams"
    /\ moves[1].raised = NoError
    /\ \E level \in Levels :
        LET raised == get_fidelity_probability_raises(level, moves[1].result)
        IN  moves' = <<[level |-> level, raised |-> raised,
                        prob |-> IF raised = NoError
                                 THEN get_fidelity_probability(level, moves[1].result)
                                 ELSE None]>>
    /\ pre' = [op |-> "get_fidelity_probability", calls |-> 0]
    /\ UNCHANGED <<params, pheromone, nest_node, ants, timestep>>

NextParams == CallWorldParams \/ CallGetFidelityProbabilityWith

SpecParams == InitParams /\ [][NextParams]_vars

(***************************************************************************)
(* Properties of the constructor (specification SpecParams).               *)
(***************************************************************************)
\* C19: WorldParams(...) fails with a validation error and returns no value
\* whenever B does not have exactly 8 entries, or the sum of B's values is
\* 1e-6 or more away from 1.0, or phi_low or delta_phi is outside [0, 1].
C19_InvalidParamsRejected ==
    pre.op = "WorldParams" =>
        LET B == params.B
            sum == SumOver(B, DOMAIN B)
            away == IF sum >= KernelDen THEN sum - KernelDen ELSE KernelDen - sum
        IN  (\/ Cardinality(DOMAIN B) # 8
             \/ away >= KernelDen \div InvTolerance
             \/ params.phi_low < 0 \/ params.phi_low > params.prob_den
             \/ params.delta_phi < 0 \/ params.delta_phi > params.prob_den) =>
                /\ moves[1].raised = "AssertionError"
                /\ moves[1].result = None

\* a kernel on the 8 offsets whose sum is exactly 1e-6 above 1.0, with
\* phi_low and delta_phi inside [0, 1], was rejected
C19_Witness ==
    /\ pre.op = "WorldParams"
    /\ DOMAIN params.B = Offsets
    /\ SumOver(params.B, DOMAIN params.B) = KernelDen + 10
    /\ params.phi_low \in 0..params.prob_den
    /\ params.delta_phi \in 0..params.prob_den
    /\ moves[1].raised = "AssertionError"

\* C20: every WorldParams value the constructor accepts has B defined on
\* exactly the 8 signed offsets 0, 45, -45, 90, -90, 135, -135, 180, so the
\* kernel lookup B[relative(velocity, d)] is defined for all directions.
C20_AcceptedKernelOnOffsets ==
    (pre.op = "WorldParams" /\ moves[1].raised = NoError) =>
        /\ DOMAIN moves[1].result.B = Offsets
        /\ \A velocity, d \in Dirs :
              relative(velocity, d) \in DOMAIN moves[1].result.B

(***************************************************************************)
(* Properties of LatticeDir (specification SpecLattice).                   *)
(***************************************************************************)
\* C21: for each of the 8 directions d, opposite(d) returns a direction,
\* opposite(opposite(d)) = d and relative(opposite(d), d) = 180: NORTH and
\* SOUTH, NORTHEAST and SOUTHWEST, EAST and WEST, SOUTHEAST and NORTHWEST
\* are each other's opposite.
C21_OppositeIsInvolution ==
    pre.op = "opposite" =>
        LET d == moves[1].direction
            o == moves[1].result
        IN  /\ o \in Dirs
            /\ moves[1].twice = d
            /\ relative(o, d) = 180
            /\ <<d, o>> \in {<<NORTH, SOUTH>>, <<SOUTH, NORTH>>,
                            <<NORTHEAST, SOUTHWEST>>, <<SOUTHWEST, NORTHEAST>>,
                            <<EAST, WEST>>, <<WEST, EAST>>,
                            <<SOUTHEAST, NORTHWEST>>, <<NORTHWEST, SOUTHEAST>>}

\* opposite was called on a direction whose angle plus 180 passes 360
C21_Witness ==
    /\ pre.op = "opposite"
    /\ moves[1].direction = NORTHWEST
    /\ moves[1].result = SOUTHEAST

\* C22: relative(a, b) is (b - a) mod 360, less 360 when that exceeds 180,
\* and is one of the 8 offsets; for a fixed a, b -> relative(a, b) is
\* one-to-one onto the offsets, so the 8 weights of the Lost Algorithm are a
\* permutation of B's values and have the same sum.
C22_RelativeIsBijection ==
    pre.op = "relative" =>
        LET a == moves[1].self
            b == moves[1].other
            m == CHOOSE x \in 0..359 : \E q \in -1..1 : b - a = q * 360 + x
            weights == [i \in 1..Len(LatticeDir) |-> params.B[relative(a, LatticeDir[i])]]
        IN  /\ moves[1].result = IF m > 180 THEN m - 360 ELSE m
            /\ moves[1].result \in {-135, -90, -45, 0, 45, 90, 135, 180}
            /\ {relative(a, d) : d \in Dirs} = Offsets
            /\ \A k \in Offsets : Cardinality({d \in Dirs : relative(a, d) = k}) = 1
            /\ \A k \in Offsets :
                  Cardinality({i \in 1..Len(LatticeDir) : weights[i] = params.B[k]})
                      = Cardinality({j \in Offsets : params.B[j] = params.B[k]})
            /\ SumTo(weights, Len(LatticeDir)) = SumOver(params.B, DOMAIN params.B)

\* relative was called on a pair whose difference is negative and whose
\* result is negative
C22_Witness ==
    /\ pre.op = "relative"
    /\ moves[1].self = EAST
    /\ moves[1].other = NORTH
    /\ moves[1].result = -90

(***************************************************************************)
(* Runs of a fresh world (specification Spec): totals over the lattice.    *)
(***************************************************************************)
\* sum(node.pheromone_level for node in world.lattice.nodes)
TotalPheromone(ph) == SumOver(ph, DOMAIN ph)

\* the number of moves of the last step that ended on node n
DepositsOn(n) == Cardinality({i \in 1..Len(moves) : EndNode(moves[i]) = n})

C24_TotalBelowSquare ==
    pre.op = "step" =>
        /\ timestep >= 1
        /\ timestep = pre.calls
        /\ Len(ants) <= timestep
        /\ TotalPheromone(pheromone) < timestep * timestep * params.tau

\* after the last step two ants are on the lattice and both deposited on
\* one node in that step
C24_Witness ==
    /\ pre.op = "step"
    /\ timestep = MaxSteps
    /\ Len(ants) = MaxSteps
    /\ \E n \in DOMAIN pheromone : DepositsOn(n) = 2

\* C25: no ant leaves the grid before it has walked from the nest to the
\* border: in a run from a fresh world, after t steps with
\* t < world_size - world_size // 2 no move has returned OFF_GRID and the
\* collection holds t ants.
C25_NoExitBeforeBorder ==
    LET N == params.world_size
    IN  (pre.op = "step" /\ pre.calls < N - (N \div 2)) =>
            /\ \A i \in 1..Len(moves) : moves[i].result = SUCCESS
            /\ Len(moves) = timestep
            /\ Len(ants) = timestep

\* the second step of a run on the 5 x 5 lattice, with an ant that stood on
\* the ring next to the border and moved onto the border
C25_Witness ==
    /\ pre.op = "step"
    /\ params.world_size = 5
    /\ timestep = 2
    /\ Len(ants) = 2
    /\ \E i \in 1..Len(moves) :
          /\ moves[i].from # nest_node
          /\ BorderAxes(EndNode(moves[i])) >= 1

(***************************************************************************)
(* More properties of single calls of Ant.move (specification SpecCall).   *)
(***************************************************************************)
\* the call of test_ant_can_move_off_grid: an ant on the corner (0,0), on
\* no pheromone, heading NORTHWEST
CornerCall ==
    /\ pre.op = "move"
    /\ CallAnt.current_node = <<0, 0>>
    /\ CallAnt.velocity = NORTHWEST
    /\ CallLevel = 0

\* C26: for an ant at (0,0) with velocity NORTHWEST on a node without
\* pheromone, and B[0] > 0, OFF_GRID is a possible result of move; move
\* returns OFF_GRID exactly when the drawn direction is N, NE, SW, W or NW
\* and SUCCESS exactly when it is E, S or SE.
C26_OffGridFromCorner ==
    (CornerCall /\ params.B[0] > 0) =>
        /\ moves[1].branch = "lost"
        /\ moves[1].result = OFF_GRID <=>
              moves[1].dir \in {NORTH, NORTHEAST, SOUTHWEST, WEST, NORTHWEST}
        /\ moves[1].result = SUCCESS <=> moves[1].dir \in {EAST, SOUTH, SOUTHEAST}
        /\ \E r \in RDraws(params) : pick_lost(CallAnt.velocity, params, r) = NORTHWEST
        /\ \E u \in UDraws(params), r \in RDraws(params) :
              move(CallAnt, pre.pheromone, params, u, r).result = OFF_GRID

\* the ant drew straight ahead and left the grid
C26_Witness ==
    /\ CornerCall
    /\ moves[1].dir = NORTHWEST
    /\ moves[1].result = OFF_GRID

(***************************************************************************)
(* The step as a function of its random draws (specification Spec).        *)
(***************************************************************************)
\* what the draws (u, r) that lead call k of the last step to its logged
\* decision can make of the ant and the lattice
EffectsOfCall(ant, ph, k) ==
    {[ant |-> m.ant, pheromone |-> m.pheromone, result |-> m.result, raised |-> m.raised] :
        m \in {c \in MoveCalls(ant, ph, params) :
                  c.seen @@ [result |-> c.result] = moves[k]}}

RECURSIVE Replay(_, _, _, _)
\* the loop of step run again from list-iterator index i on the logged
\* decisions, call k being the next one: the world it ends in, with
\* ok = FALSE when a logged decision has no draw or more than one effect
Replay(i, list, ph, k) ==
    IF i > Len(list)
    THEN [ok |-> k = Len(moves) + 1, ants |-> list, pheromone |-> ph]
    ELSE IF k > Len(moves) \/ Cardinality(EffectsOfCall(list[i], ph, k)) # 1
    THEN [ok |-> FALSE, ants |-> list, pheromone |-> ph]
    ELSE LET e == CHOOSE x \in EffectsOfCall(list[i], ph, k) : TRUE
             moved == [list EXCEPT ![i] = e.ant]
         IN  IF e.raised # NoError
             THEN [ok |-> FALSE, ants |-> moved, pheromone |-> e.pheromone]
             ELSE IF e.result = OFF_GRID
             THEN Replay(i + 1, ListRemove(moved, e.ant), e.pheromone, k + 1)
             ELSE Replay(i + 1, moved, e.pheromone, k + 1)

FieldAtCall(k) ==
    [n \in DOMAIN pre.pheromone |->
        pre.pheromone[n]
            + params.tau * Cardinality({j \in 1..(k - 1) : EndNode(moves[j]) = n})]

\* C28: within a step the ants are updated in place: the levels an ant reads
\* in its fidelity check and in its follow or fork decision include the tau
\* deposits of the ants processed before it in this step and not yet this
\* step's evaporation, which is applied once after the last ant has moved.
C28_UpdatedInPlace ==
    pre.op = "step" =>
        /\ \A k \in 1..Len(moves) :
              LET field == FieldAtCall(k)
                  mv == moves[k]
              IN  /\ mv.level = field[mv.from]
                  /\ mv.level = 0 => mv.status = LOST
                  /\ mv.status = FOLLOWING =>
                        \E r \in RDraws(params) :
                            pick_following(mv.velocity_before,
                                           neighbors(params.world_size, mv.from),
                                           field, params, r)
                                = [dir |-> mv.dir, branch |-> mv.branch]
        /\ \A n \in DOMAIN pheromone :
              LET added == pre.pheromone[n] + params.tau * DepositsOn(n)
              IN  pheromone[n] = IF added >= params.evaporation_rate
                                 THEN added - params.evaporation_rate
                                 ELSE 0

\* the second ant of a step stood on a node without pheromone, the first
\* ant moved onto that node, and the second then followed the fresh deposit
C28_Witness ==
    /\ pre.op = "step"
    /\ Len(moves) = 2
    /\ pre.pheromone[moves[2].from] = 0
    /\ EndNode(moves[1]) = moves[2].from
    /\ moves[2].level = params.tau
    /\ moves[2].status = FOLLOWING

(***************************************************************************)
(* The two outcomes of one move (specification SpecCall).                  *)
(***************************************************************************)
\* the position one unit offset of the chosen direction away from the ant
Destination == <<CallAnt.current_node[1] + DX(moves[1].dir),
                 CallAnt.current_node[2] + DY(moves[1].dir)>>

\* the call chose a direction and returned
MoveReturned == pre.op = "move" /\ pre.raised = NoError

\* C29: when the chosen direction has a neighbour, move returns SUCCESS,
\* current_node becomes the old position plus the unit offset of the chosen
\* direction, velocity becomes the chosen direction, the new node's level
\* rises by exactly tau and no other node's level changes.
C29_SuccessfulMove ==
    (MoveReturned /\ Destination \in Nodes(params.world_size)) =>
        /\ moves[1].result = SUCCESS
        /\ ants[1].current_node = Destination
        /\ ants[1].velocity = moves[1].dir
        /\ pheromone[Destination] = pre.pheromone[Destination] + params.tau
        /\ \A n \in DOMAIN pheromone :
              n # Destination => pheromone[n] = pre.pheromone[n]

\* a following ant turned onto a neighbour that already carried pheromone
C29_Witness ==
    /\ MoveReturned
    /\ moves[1].result = SUCCESS
    /\ moves[1].status = FOLLOWING
    /\ moves[1].dir # CallAnt.velocity
    /\ pre.pheromone[Destination] > 0
    /\ pheromone[CallAnt.current_node] = CallLevel

\* C30: when the chosen direction has no neighbour, move returns OFF_GRID,
\* no node's level changes, and the ant's current_node and velocity are
\* left as they were before the call.
C30_OffGridMove ==
    (MoveReturned /\ Destination \notin Nodes(params.world_size)) =>
        /\ moves[1].result = OFF_GRID
        /\ pheromone = pre.pheromone
        /\ ants[1].current_node = CallAnt.current_node
        /\ ants[1].velocity = CallAnt.velocity

\* an ant on a node with pheromone chose a direction other than its
\* velocity and that direction led off the grid
C30_Witness ==
    /\ MoveReturned
    /\ moves[1].result = OFF_GRID
    /\ moves[1].dir # CallAnt.velocity
    /\ CallLevel > 0

LevelAt(d) == pre.pheromone[CallNbrs[d]]

\* the candidates at which the highest level among the candidates is found
MaximalCandidates == {d \in Candidates : \A c \in Candidates : LevelAt(c) <= LevelAt(d)}

\* C32: with at least two candidates, velocity not a candidate, and the
\* candidates neither all at the same level nor all >= C_s, pick_following
\* returns the candidate with the strictly maximal pheromone_level.
C32_DistinctForkTakesMaximum ==
    (/\ pre.op = "pick_following"
     /\ Cardinality(Candidates) >= 2
     /\ CallAnt.velocity \notin Candidates
     /\ \E c, d \in Candidates : LevelAt(c) # LevelAt(d)
     /\ \E c \in Candidates : LevelAt(c) < params.C_s) =>
        /\ moves[1].branch = "max"
        /\ moves[1].dir \in Candidates
        /\ \A c \in Candidates \ {moves[1].dir} : LevelAt(c) < LevelAt(moves[1].dir)

\* the maximal candidate was the later of the two in the key order of
\* neighbors, and a neighbour outside the forward arc carried more than it
C32_Witness ==
    /\ pre.op = "pick_following"
    /\ moves[1].branch = "max"
    /\ \E c \in Candidates : c < moves[1].dir
    /\ \E d \in Dirs \ Candidates : CallNbrs[d] # None /\ LevelAt(d) > LevelAt(moves[1].dir)

\* C33: whenever the max branch is reached, the candidate set is exactly
\* the two directions at +45 and -45 degrees from velocity, their levels
\* differ and at least one of them is below C_s, so exactly one candidate
\* is maximal.
C33_MaximumNeverTied ==
    (pre.op = "pick_following" /\ moves[1].branch = "max") =>
        LET trails == nearby_trails(CallAnt.velocity, CallNbrs, pre.pheromone)
            found == {trails[i] : i \in 1..Len(trails)}
        IN  /\ found = {d \in Dirs : Abs(relative(CallAnt.velocity, d)) = 45}
            /\ found = Candidates
            /\ Len(trails) = 2
            /\ LevelAt(trails[1]) # LevelAt(trails[2])
            /\ \E d \in found : LevelAt(d) < params.C_s
            /\ Cardinality(MaximalCandidates) = 1
            /\ MaximalCandidates = {moves[1].dir}

\* the max branch was reached with one candidate saturated and one not
C33_Witness ==
    /\ pre.op = "pick_following"
    /\ moves[1].branch = "max"
    /\ \E c \in Candidates : LevelAt(c) >= params.C_s
    /\ \E c \in Candidates : LevelAt(c) < params.C_s

(***************************************************************************)
(* The fidelity probability under accepted parameters (specification       *)
(* SpecParams).                                                            *)
(***************************************************************************)
\* the call of get_fidelity_probability that followed the constructor
FidelityCalled == pre.op = "get_fidelity_probability"

\* C34 as stated: for every WorldParams value the constructor accepts and
\* every pheromone level >= 0, the fidelity probability lies in [0, 1].
C34_ProbabilityWithinUnit ==
    (FidelityCalled /\ moves[1].raised = NoError) =>
        /\ 0 <= moves[1].prob.num
        /\ moves[1].prob.num <= moves[1].prob.den

\* C34, amended: for every accepted WorldParams value and every pheromone
\* level >= 0 the fidelity probability lies between phi_low and
\* phi_low + delta_phi, hence in [0, 2]; it lies in [0, 1] when
\* phi_low + delta_phi <= 1, which the constructor does not require.
C34_ProbabilityWithinSum ==
    (FidelityCalled /\ moves[1].raised = NoError) =>
        LET prob == moves[1].prob
        IN  /\ prob.den > 0
            /\ params.phi_low * prob.den <= prob.num * params.prob_den
            /\ prob.num * params.prob_den
                  <= (params.phi_low + params.delta_phi) * prob.den
            /\ 0 <= prob.num
            /\ prob.num <= 2 * prob.den
            /\ params.phi_low + params.delta_phi <= params.prob_den =>
                  prob.num <= prob.den

\* accepted parameters with phi_low + delta_phi > 1 gave a value above 1
\* on a node below saturation
C34_Witness ==
    /\ FidelityCalled
    /\ moves[1].raised = NoError
    /\ moves[1].level < params.C_s
    /\ moves[1].prob.num > moves[1].prob.den

\* C38: get_fidelity_probability never divides by zero for any integer C_s
\* when pheromone_level >= 0: it raises nothing, and with C_s <= 0 the
\* result is phi_low + delta_phi at every pheromone level.
C38_NoDivisionByZero ==
    FidelityCalled =>
        /\ moves[1].raised = NoError
        /\ params.C_s <= 0 =>
              moves[1].prob = [num |-> params.phi_low + params.delta_phi,
                               den |-> params.prob_den]

\* the call was made with C_s = 0 on a node without pheromone
C38_Witness ==
    /\ FidelityCalled
    /\ params.C_s = 0
    /\ moves[1].level = 0
    /\ moves[1].raised = NoError

(***************************************************************************)
(* Pheromone accounting of a step (specification Spec).                    *)
(***************************************************************************)
\* the ants that stand on node n after the step and moved there in it
Arrivals(n) ==
    Cardinality({i \in 1..Len(ants) :
                    /\ ants[i].current_node = n
                    /\ \E k \in 1..Len(moves) :
                          moves[k].id = ants[i].id /\ moves[k].result = SUCCESS})

\* C35: after step(), for every node n, the level is max(0, the level
\* before + tau * (number of ants whose move in this step ended on n)
\* - evaporation_rate); nodes reached by no ant only lose evaporation_rate,
\* floored at 0.
C35_StepPheromoneAccounting ==
    pre.op = "step" =>
        \A n \in DOMAIN pheromone :
            /\ Arrivals(n) = DepositsOn(n)
            /\ pheromone[n] = Max(0, pre.pheromone[n] + params.tau * Arrivals(n)
                                        - params.evaporation_rate)
            /\ Arrivals(n) = 0 =>
                  pheromone[n] = Max(0, pre.pheromone[n] - params.evaporation_rate)

\* two ants ended their move on one node, another node that carried
\* pheromone was reached by none, and a third stayed at 0
C35_Witness ==
    /\ pre.op = "step"
    /\ \E n \in DOMAIN pheromone : Arrivals(n) = 2
    /\ \E n \in DOMAIN pheromone :
          Arrivals(n) = 0 /\ pre.pheromone[n] > 0 /\ pheromone[n] < pre.pheromone[n]
    /\ \E n \in DOMAIN pheromone :
          Arrivals(n) = 0 /\ pre.pheromone[n] = 0 /\ pheromone[n] = 0

(***************************************************************************)
(* Where a followed trail can lead (specification SpecCall).               *)
(***************************************************************************)
\* the returns of pick_following that do not go through pick_lost
FollowBranches == {"single", "forward", "max"}

\* C36: a move decided by the follow algorithm without falling back to the
\* Lost Algorithm (single candidate, forward preference or maximal
\* candidate) targets a present neighbour with pheromone_level > 0 within
\* 45 degrees of the previous velocity and returns SUCCESS; OFF_GRID only
\* results from a direction drawn by the Lost Algorithm.
C36_FollowedTrailStaysOnGrid ==
    MoveReturned =>
        /\ moves[1].branch \in FollowBranches =>
              /\ moves[1].status = FOLLOWING
              /\ CallNbrs[moves[1].dir] # None
              /\ pre.pheromone[CallNbrs[moves[1].dir]] > 0
              /\ Abs(relative(CallAnt.velocity, moves[1].dir)) <= 45
              /\ moves[1].result = SUCCESS
              /\ ants[1].current_node = CallNbrs[moves[1].dir]
        /\ moves[1].result = OFF_GRID =>
              /\ moves[1].branch \in {"lost", "ended", "indistinct"}
              /\ \E r \in RDraws(params) :
                    moves[1].dir = pick_lost(CallAnt.velocity, params, r)

\* on a node of the border, the ant took the higher of the two candidates
\* beside its heading
C36_Witness ==
    /\ MoveReturned
    /\ moves[1].branch = "max"
    /\ moves[1].result = SUCCESS
    /\ \E d \in Dirs : CallNbrs[d] = None

(***************************************************************************)
(* The ants and the nest on the current lattice (specification Spec).      *)
(***************************************************************************)
\* C37: in every state reached by steps and resets, each live ant's
\* current_node is a node of the world's current lattice (0 <= x, y <
\* world_size; the ant was spawned in one of the steps taken since that
\* lattice was built), and nest_node is the node of the current lattice at
\* (world_size // 2, world_size // 2).
C37_AntsAndNestOnCurrentLattice ==
    /\ DOMAIN pheromone = Nodes(params.world_size)
    /\ nest_node = <<params.world_size \div 2, params.world_size \div 2>>
    /\ nest_node \in DOMAIN pheromone
    /\ \A i \in 1..Len(ants) :
          /\ ants[i].current_node \in DOMAIN pheromone
          /\ 0 <= ants[i].current_node[1] /\ ants[i].current_node[1] < params.world_size
          /\ 0 <= ants[i].current_node[2] /\ ants[i].current_node[2] < params.world_size
          /\ ants[i].id \in 1..timestep
    /\ pre.op = "reset" => ants = <<>>

\* a live ant stands on the border away from the nest after a step in
\* which another ant left the grid
C37_Witness ==
    /\ pre.op = "step"
    /\ Len(ants) >= 1
    /\ \E i \in 1..Len(ants) :
          /\ ants[i].current_node # nest_node
          /\ \E d \in Dirs : neighbors(params.world_size, ants[i].current_node)[d] = None
    /\ \E k \in 1..Len(moves) : moves[k].result = OFF_GRID
====
